---- MODULE Spec2Model ----
(***************************************************************************)
(* Model of the USB I/O 24 driver: IOModule (usbio24/io.py), RelayModule   *)
(* (usbio24/output.py) and the relay functional check (usbio24/test.py).   *)
(*                                                                         *)
(* Every public operation is a pure function from its arguments (and, for  *)
(* the two reading operations, the bytes the transport hands back) to an   *)
(* outcome: the trace of transport events of the call, in order, the       *)
(* exception that ended it ("" when it returned) and the value returned.   *)
(* A byte is an integer 0..255, a frame a sequence of bytes, a transport   *)
(* event a record [k |-> "w", b |-> bytes written by one driver.write] or  *)
(* [k |-> "r", b |-> bytes one driver.read / readline returned].           *)
(***************************************************************************)
EXTENDS Integers, Sequences, FiniteSets, TLC

VARIABLES
    last,   \* the last call: operation, arguments, transport trace, exception, result
    first,  \* the first frame written on the transport of this IOModule
    mode,   \* operating mode selected by the last mode frame written
    port,   \* RelayModule.port, "" while no RelayModule is constructed
    board,  \* TRUE when the relay board model is attached behind the transport
    dev,    \* the board's Port Values, [{"A","B","C"} -> 0..255]
    targ,   \* test_relays: its port argument, "" when it is not running
    tpc     \* test_relays: index of the next statement, 0 when it is not running

vars == <<last, first, mode, port, board, dev, targ, tpc>>

(***************************************************************************)
(* Bounds and input sets.                                                  *)
(***************************************************************************)
MaxLen == 2

PortInputs == {"A", "b", "d"}
RelayPorts == {"a", "B", "C"}
TestPorts == {"A", "a", "B", "b", "C", "c", "d"}
PinInputs == {0, 1, 8, 9}
DataInputs == {-1, 0, 129, 255, 256}
ModeInputs == {0, 1, 2, 3}
ReadResponses == {<<>>, <<0>>, <<5>>, <<255>>}
IdentLines == {<<>>, <<85, 83, 66, 10>>}

RECURSIVE SeqsUpTo(_, _)
SeqsUpTo(S, n) ==
    IF n = 0 THEN {<<>>}
    ELSE LET shorter == SeqsUpTo(S, n - 1)
         IN  shorter \cup {Append(s, x) : s \in shorter, x \in S}

PinLists == SeqsUpTo(PinInputs, MaxLen)

Range(s) == {s[i] : i \in 1..Len(s)}

(***************************************************************************)
(* Python strings and struct.pack.                                         *)
(***************************************************************************)
Upper(s) ==
    CASE s = "a" -> "A" [] s = "b" -> "B" [] s = "c" -> "C" [] s = "d" -> "D"
      [] OTHER -> s

Lower(s) ==
    CASE s = "A" -> "a" [] s = "B" -> "b" [] s = "C" -> "c" [] s = "D" -> "d"
      [] OTHER -> s

Ord(c) ==
    CASE c = "A" -> 65 [] c = "B" -> 66 [] c = "C" -> 67 [] c = "D" -> 68
      [] c = "a" -> 97 [] c = "b" -> 98 [] c = "c" -> 99 [] c = "d" -> 100
      [] c = "?" -> 63 [] c = "H" -> 72 [] c = "L" -> 76 [] c = "!" -> 33
      [] c = "#" -> 35 [] c = "@" -> 64 [] c = "$" -> 36

RECURSIVE Pow2(_)
Pow2(n) == IF n <= 0 THEN 1 ELSE 2 * Pow2(n - 1)

\* struct.pack format 'B' takes an integer 0..255 and fails on any other.
PackB_ok(n) == n >= 0 /\ n <= 255

(***************************************************************************)
(* Outcomes of calls, and Python's sequencing of statements: the second    *)
(* statement runs only if the first did not raise.                         *)
(***************************************************************************)
W(bytes) == [k |-> "w", b |-> bytes]
R(bytes) == [k |-> "r", b |-> bytes]

Ok(trace, ret) == [trace |-> trace, exc |-> "", ret |-> ret]
Raise(trace, e) == [trace |-> trace, exc |-> e, ret |-> <<>>]
Pass == Ok(<<>>, <<>>)

Then(o1, o2) ==
    IF o1.exc # "" THEN o1
    ELSE [trace |-> o1.trace \o o2.trace, exc |-> o2.exc, ret |-> o2.ret]

(***************************************************************************)
(* IOModule (io.py).                                                       *)
(***************************************************************************)
validate_port(p) ==
    IF Upper(p) \notin {"A", "B", "C"} THEN Raise(<<>>, "InvalidPort") ELSE Pass

validate_pin(pin) ==
    IF pin < 1 \/ pin > 8 THEN Raise(<<>>, "InvalidPin") ELSE Pass

\* int(data): truncation toward zero.  Data is carried in halves (h = 2*data)
\* because RelayModule.set_state can pass the float 2 ** (relay - 1) = 0.5.
IntOf(h) == IF h >= 0 THEN h \div 2 ELSE -((-h) \div 2)

validate_data(h) ==
    IF IntOf(h) < 0 \/ IntOf(h) > 255 THEN Raise(<<>>, "InvalidData") ELSE Pass

set_mode(m) ==
    IF m \notin {1, 2} THEN Raise(<<>>, "InvalidMode")
    ELSE Ok(<<W(<<m>>)>>, <<>>)

identify(line) == Ok(<<W(<<Ord("?")>>), R(line)>>, line)

\* Mutant: the port letter is sent in upper case, as for a write.
read_port_upper(p, response) ==
    Then(validate_port(p),
         IF Len(response) # 1
         THEN Raise(<<W(<<Ord(Upper(p))>>), R(response)>>, "struct.error")
         ELSE Ok(<<W(<<Ord(Upper(p))>>), R(response)>>, <<response[1]>>))

\* unpack('B', response)[0]: one byte, unsigned; any other length fails.
read_port(p, response) ==
    Then(validate_port(p),
         IF Len(response) # 1
         THEN Raise(<<W(<<Ord(Lower(p))>>), R(response)>>, "struct.error")
         ELSE Ok(<<W(<<Ord(Lower(p))>>), R(response)>>, <<response[1]>>))

\* Mutant: the port letter and the data byte go out in two writes.
write_port_split(p, h) ==
    Then(validate_port(p),
    Then(validate_data(h),
         Ok(<<W(<<Ord(Upper(p))>>), W(<<IntOf(h)>>)>>, <<>>)))

write_port(p, h) ==
    Then(validate_port(p),
    Then(validate_data(h),
         Ok(<<W(<<Ord(Upper(p)), IntOf(h)>>)>>, <<>>)))

\* Mutant: port C gets the base of port B.
PortBase_c8(p) ==
    CASE Upper(p) = "A" -> 0 [] Upper(p) = "B" -> 8 [] Upper(p) = "C" -> 8

PortBase(p) ==
    CASE Upper(p) = "A" -> 0 [] Upper(p) = "B" -> 8 [] Upper(p) = "C" -> 16

set_pin_high(p, pin) ==
    Then(validate_port(p),
    Then(validate_pin(pin),
         Ok(<<W(<<Ord("H"), PortBase(p) + (pin - 1)>>)>>, <<>>)))

set_pin_low(p, pin) ==
    Then(validate_port(p),
    Then(validate_pin(pin),
         Ok(<<W(<<Ord("L"), PortBase(p) + (pin - 1)>>)>>, <<>>)))

\* Mutant: the port letter is packed as given, not in upper case.
set_pin_direction_raw_asgiven(p, arg) ==
    Then(validate_port(p),
         IF ~PackB_ok(arg) THEN Raise(<<>>, "struct.error")
         ELSE Ok(<<W(<<Ord("!"), Ord(p), arg>>)>>, <<>>))

set_pin_direction_raw(p, arg) ==
    Then(validate_port(p),
         IF ~PackB_ok(arg) THEN Raise(<<>>, "struct.error")
         ELSE Ok(<<W(<<Ord("!"), Ord(Upper(p)), arg>>)>>, <<>>))

\* Mutant: the bit value is 2 ** pin.
RECURSIVE PinLoop_shifted(_, _, _, _)
PinLoop_shifted(pins, i, acc, sign) ==
    IF i > Len(pins) THEN Ok(<<>>, <<acc>>)
    ELSE IF validate_pin(pins[i]).exc # "" THEN validate_pin(pins[i])
    ELSE PinLoop_shifted(pins, i + 1, acc + sign * Pow2(pins[i]), sign)

\* The loop "for pin in pins: validate; pin_int +/-= 2 ** (pin - 1)" from
\* index i with accumulator acc; the value is the outcome, with the final
\* accumulator as its result.
RECURSIVE PinLoop(_, _, _, _)
PinLoop(pins, i, acc, sign) ==
    IF i > Len(pins) THEN Ok(<<>>, <<acc>>)
    ELSE IF validate_pin(pins[i]).exc # "" THEN validate_pin(pins[i])
    ELSE PinLoop(pins, i + 1, acc + sign * Pow2(pins[i] - 1), sign)

set_pin_direction(p, input_pins) ==
    Then(validate_port(p),
         LET loop == PinLoop(input_pins, 1, 0, 1)
         IN  IF loop.exc # "" THEN loop
             ELSE set_pin_direction_raw(p, loop.ret[1]))

\* _port_pull_up_raw, _set_threshold_raw, _schmitt_trigger_raw: the same
\* body with selector '#', '@', '$'.
feature_raw(sel, p, arg) ==
    Then(validate_port(p),
    Then(Ok(<<W(<<Ord(sel)>>)>>, <<>>),
         write_port(p, 2 * arg)))

port_pull_up_raw(p, arg) == feature_raw("#", p, arg)
set_threshold_raw(p, arg) == feature_raw("@", p, arg)
schmitt_trigger_raw(p, arg) == feature_raw("$", p, arg)

port_pull_up(p, pins) ==
    LET loop == PinLoop(pins, 1, 255, -1)
    IN  IF loop.exc # "" THEN loop ELSE port_pull_up_raw(p, loop.ret[1])

set_threshold_high(p, pins) ==
    LET loop == PinLoop(pins, 1, 255, -1)
    IN  IF loop.exc # "" THEN loop ELSE set_threshold_raw(p, loop.ret[1])

schmitt_trigger(p, pins) ==
    LET loop == PinLoop(pins, 1, 255, -1)
    IN  IF loop.exc # "" THEN loop ELSE schmitt_trigger_raw(p, loop.ret[1])

\* Mutant: the constructor selects mode 2.
IOModule_init_mode2 == set_mode(2)

IOModule_init == set_mode(1)

(***************************************************************************)
(* RelayModule (output.py).  bound is self.port.                           *)
(***************************************************************************)
RelayModule_init(p) == set_pin_direction(Upper(p), <<>>)

\* Mutant: the bit value is 2 ** relay.
RECURSIVE RelayHalves_shifted(_, _)
RelayHalves_shifted(relays, i) ==
    IF i > Len(relays) THEN 0
    ELSE Pow2(relays[i] + 1) + RelayHalves_shifted(relays, i + 1)

\* relay_int in halves: 2 * 2 ** (relay - 1) = 2 ** relay, exact for relay >= 0.
RECURSIVE RelayHalves(_, _)
RelayHalves(relays, i) ==
    IF i > Len(relays) THEN 0
    ELSE Pow2(relays[i]) + RelayHalves(relays, i + 1)

set_state(bound, activated_relays) ==
    write_port(bound, RelayHalves(activated_relays, 1))

reset(bound) == set_state(bound, <<>>)

\* "for relay in relays" fails with TypeError when relays is an int.
RECURSIVE ActivateLoop(_, _, _)
ActivateLoop(bound, relays, i) ==
    IF i > Len(relays) THEN Pass
    ELSE Then(set_pin_high(bound, relays[i]), ActivateLoop(bound, relays, i + 1))

activate(bound, iterable, relays) ==
    IF ~iterable THEN Raise(<<>>, "TypeError") ELSE ActivateLoop(bound, relays, 1)

RECURSIVE DeactivateLoop(_, _, _)
DeactivateLoop(bound, relays, i) ==
    IF i > Len(relays) THEN Pass
    ELSE Then(set_pin_low(bound, relays[i]), DeactivateLoop(bound, relays, i + 1))

deactivate(bound, iterable, relays) ==
    IF ~iterable THEN Raise(<<>>, "TypeError") ELSE DeactivateLoop(bound, relays, 1)

(***************************************************************************)
(* The device behind the transport, as far as the driver's frames address  *)
(* it: the operating mode and the three Port Values.                       *)
(***************************************************************************)
Ports == {"A", "B", "C"}
InitBytes == {0, 255}

Bit(v, i) == (v \div Pow2(i)) % 2
SetBit(v, i) == IF Bit(v, i) = 1 THEN v ELSE v + Pow2(i)
ClearBit(v, i) == IF Bit(v, i) = 1 THEN v - Pow2(i) ELSE v

PortOfIndex(i) == CASE i \div 8 = 0 -> "A" [] i \div 8 = 1 -> "B" [] i \div 8 = 2 -> "C"
PortOfCode(c) == CHOOSE q \in Ports : Ord(q) = c

IsWritePort(f) == Len(f) = 2 /\ f[1] \in {Ord(q) : q \in Ports}
IsPinFrame(f, sel) == Len(f) = 2 /\ f[1] = Ord(sel) /\ f[2] \in 0..23
IsSelector(f) == Len(f) = 1 /\ f[1] \in {Ord("#"), Ord("@"), Ord("$")}
IsModeFrame(f) == Len(f) = 1 /\ f[1] \in {1, 2}

\* The mode after the writes of a trace: a mode frame selects its mode.
RECURSIVE ModeAfter(_, _, _)
ModeAfter(m, trace, i) ==
    IF i > Len(trace) THEN m
    ELSE IF trace[i].k = "w" /\ IsModeFrame(trace[i].b)
         THEN ModeAfter(trace[i].b[1], trace, i + 1)
         ELSE ModeAfter(m, trace, i + 1)

\* The Port Values after the writes of a trace.  Write Port replaces the
\* port's byte, H / L set / clear the one addressed bit, and a Write Port
\* frame that follows a '#', '@' or '$' selector (sel) configures the port
\* and leaves its value alone.
RECURSIVE DevApply(_, _, _, _)
DevApply(d, trace, i, sel) ==
    IF i > Len(trace) THEN d
    ELSE LET f == trace[i].b
             q == PortOfIndex(f[2])
         IN  IF trace[i].k # "w" THEN DevApply(d, trace, i + 1, sel)
             ELSE IF IsSelector(f) THEN DevApply(d, trace, i + 1, TRUE)
             ELSE IF IsWritePort(f) /\ sel THEN DevApply(d, trace, i + 1, FALSE)
             ELSE IF IsWritePort(f)
                  THEN DevApply([d EXCEPT ![PortOfCode(f[1])] = f[2]], trace, i + 1, FALSE)
             ELSE IF IsPinFrame(f, "H")
                  THEN DevApply([d EXCEPT ![q] = SetBit(d[q], f[2] % 8)], trace, i + 1, FALSE)
             ELSE IF IsPinFrame(f, "L")
                  THEN DevApply([d EXCEPT ![q] = ClearBit(d[q], f[2] % 8)], trace, i + 1, FALSE)
             ELSE DevApply(d, trace, i + 1, FALSE)

(***************************************************************************)
(* Calls as actions.                                                       *)
(***************************************************************************)
Call(op, p, n, l, iterable, o) ==
    [op |-> op, port |-> p, n |-> n, list |-> l, iterable |-> iterable,
     trace |-> o.trace, exc |-> o.exc, ret |-> o.ret]

\* What a call leaves behind besides its record: the mode its frames select
\* and, with the board attached, the Port Values they produce.
Effects(o) ==
    /\ mode' = ModeAfter(mode, o.trace, 1)
    /\ dev' = IF board THEN DevApply(dev, o.trace, 1, FALSE) ELSE dev
    /\ UNCHANGED <<first, board>>

SetMode ==
    \E m \in ModeInputs :
        /\ last' = Call("set_mode", "", m, <<>>, TRUE, set_mode(m))
        /\ Effects(set_mode(m)) /\ UNCHANGED <<port, targ, tpc>>
Identify ==
    \E line \in IdentLines :
        /\ last' = Call("identify", "", 0, <<>>, TRUE, identify(line))
        /\ Effects(identify(line)) /\ UNCHANGED <<port, targ, tpc>>
ReadPort ==
    \E p \in PortInputs, r \in ReadResponses :
        /\ last' = Call("read_port", p, 0, r, TRUE, read_port(p, r))
        /\ Effects(read_port(p, r)) /\ UNCHANGED <<port, targ, tpc>>
WritePort ==
    \E p \in PortInputs, d \in DataInputs :
        /\ last' = Call("write_port", p, d, <<>>, TRUE, write_port(p, 2 * d))
        /\ Effects(write_port(p, 2 * d)) /\ UNCHANGED <<port, targ, tpc>>
SetPinHigh ==
    \E p \in PortInputs, pin \in PinInputs :
        /\ last' = Call("set_pin_high", p, pin, <<>>, TRUE, set_pin_high(p, pin))
        /\ Effects(set_pin_high(p, pin)) /\ UNCHANGED <<port, targ, tpc>>
SetPinLow ==
    \E p \in PortInputs, pin \in PinInputs :
        /\ last' = Call("set_pin_low", p, pin, <<>>, TRUE, set_pin_low(p, pin))
        /\ Effects(set_pin_low(p, pin)) /\ UNCHANGED <<port, targ, tpc>>
SetPinDirectionRaw ==
    \E p \in PortInputs, d \in DataInputs :
        /\ last' = Call("set_pin_direction_raw", p, d, <<>>, TRUE, set_pin_direction_raw(p, d))
        /\ Effects(set_pin_direction_raw(p, d)) /\ UNCHANGED <<port, targ, tpc>>
SetPinDirection ==
    \E p \in PortInputs, l \in PinLists :
        /\ last' = Call("set_pin_direction", p, 0, l, TRUE, set_pin_direction(p, l))
        /\ Effects(set_pin_direction(p, l)) /\ UNCHANGED <<port, targ, tpc>>
PortPullUpRaw ==
    \E p \in PortInputs, d \in DataInputs :
        /\ last' = Call("port_pull_up_raw", p, d, <<>>, TRUE, port_pull_up_raw(p, d))
        /\ Effects(port_pull_up_raw(p, d)) /\ UNCHANGED <<port, targ, tpc>>
SetThresholdRaw ==
    \E p \in PortInputs, d \in DataInputs :
        /\ last' = Call("set_threshold_raw", p, d, <<>>, TRUE, set_threshold_raw(p, d))
        /\ Effects(set_threshold_raw(p, d)) /\ UNCHANGED <<port, targ, tpc>>
SchmittTriggerRaw ==
    \E p \in PortInputs, d \in DataInputs :
        /\ last' = Call("schmitt_trigger_raw", p, d, <<>>, TRUE, schmitt_trigger_raw(p, d))
        /\ Effects(schmitt_trigger_raw(p, d)) /\ UNCHANGED <<port, targ, tpc>>
PortPullUp ==
    \E p \in PortInputs, l \in PinLists :
        /\ last' = Call("port_pull_up", p, 0, l, TRUE, port_pull_up(p, l))
        /\ Effects(port_pull_up(p, l)) /\ UNCHANGED <<port, targ, tpc>>
SetThresholdHigh ==
    \E p \in PortInputs, l \in PinLists :
        /\ last' = Call("set_threshold_high", p, 0, l, TRUE, set_threshold_high(p, l))
        /\ Effects(set_threshold_high(p, l)) /\ UNCHANGED <<port, targ, tpc>>
SchmittTrigger ==
    \E p \in PortInputs, l \in PinLists :
        /\ last' = Call("schmitt_trigger", p, 0, l, TRUE, schmitt_trigger(p, l))
        /\ Effects(schmitt_trigger(p, l)) /\ UNCHANGED <<port, targ, tpc>>

SetState ==
    \E l \in PinLists :
        /\ last' = Call("set_state", port, 0, l, TRUE, set_state(port, l))
        /\ Effects(set_state(port, l)) /\ UNCHANGED <<port, targ, tpc>>
Reset ==
    /\ last' = Call("reset", port, 0, <<>>, TRUE, reset(port))
    /\ Effects(reset(port)) /\ UNCHANGED <<port, targ, tpc>>
Activate ==
    \E l \in PinLists :
        /\ last' = Call("activate", port, 0, l, TRUE, activate(port, TRUE, l))
        /\ Effects(activate(port, TRUE, l)) /\ UNCHANGED <<port, targ, tpc>>
Deactivate ==
    \E l \in PinLists :
        /\ last' = Call("deactivate", port, 0, l, TRUE, deactivate(port, TRUE, l))
        /\ Effects(deactivate(port, TRUE, l)) /\ UNCHANGED <<port, targ, tpc>>

(***************************************************************************)
(* Spec: an IOModule and a RelayModule built on it, any calls in any       *)
(* order, on a transport that records what is written.                     *)
(***************************************************************************)
Constructed(p) ==
    /\ first = IOModule_init.trace[1].b
    /\ port = Upper(p)
    /\ last = Call("RelayModule", p, 0, <<>>, TRUE, RelayModule_init(p))
    /\ mode = ModeAfter(0, IOModule_init.trace \o RelayModule_init(p).trace, 1)
    /\ targ = ""
    /\ tpc = 0

Init ==
    /\ \E p \in RelayPorts : Constructed(p)
    /\ board = FALSE
    /\ dev = [q \in Ports |-> 0]

RelayNext == SetState \/ Reset \/ Activate \/ Deactivate

Next ==
    \/ SetMode \/ Identify \/ ReadPort \/ WritePort \/ SetPinHigh \/ SetPinLow
    \/ SetPinDirectionRaw \/ SetPinDirection
    \/ PortPullUpRaw \/ SetThresholdRaw \/ SchmittTriggerRaw
    \/ PortPullUp \/ SetThresholdHigh \/ SchmittTrigger
    \/ RelayNext

Spec == Init /\ [][Next]_vars

(***************************************************************************)
(* SpecRelay: the relay board behind the transport, all its pins low or    *)
(* all high at the start, driven through the RelayModule only.             *)
(***************************************************************************)
InitRelay ==
    /\ \E p \in RelayPorts : Constructed(p)
    /\ board = TRUE
    /\ \E b \in InitBytes : dev = [q \in Ports |-> b]

SpecRelay == InitRelay /\ [][RelayNext]_vars

(***************************************************************************)
(* SpecTest: test_relays(io, port) of test.py, statement by statement,     *)
(* on a constructed IOModule with the relay board behind the transport.    *)
(* A statement that raises ends the run.                                   *)
(***************************************************************************)
Pairs == <<(<<1, 8>>), (<<2, 7>>), (<<3, 6>>), (<<4, 5>>)>>

Stmt(i) ==
    IF i = 1 THEN [op |-> "RelayModule", l |-> <<>>, iterable |-> TRUE]
    ELSE IF i = 2 THEN [op |-> "identify", l |-> <<>>, iterable |-> TRUE]
    ELSE IF i \in {3, 5, 58} THEN [op |-> "reset", l |-> <<>>, iterable |-> TRUE]
    ELSE IF i = 4 THEN [op |-> "set_state", l |-> [r \in 1..8 |-> r], iterable |-> TRUE]
    ELSE IF i \in 6..29
         THEN [op |-> "activate", l |-> <<((i - 6) % 8) + 1>>, iterable |-> FALSE]
    ELSE IF i \in 30..53
         THEN [op |-> "deactivate", l |-> <<((i - 30) % 8) + 1>>, iterable |-> FALSE]
    ELSE [op |-> "set_state", l |-> Pairs[i - 53], iterable |-> TRUE]

TestLen == 58

Exec(s, line) ==
    CASE s.op = "RelayModule" -> RelayModule_init(targ)
      [] s.op = "identify" -> identify(line)
      [] s.op = "reset" -> reset(port)
      [] s.op = "set_state" -> set_state(port, s.l)
      [] s.op = "activate" -> activate(port, s.iterable, s.l)
      [] s.op = "deactivate" -> deactivate(port, s.iterable, s.l)

TestStep ==
    /\ tpc \in 1..TestLen
    /\ last.exc = ""
    /\ \E line \in IdentLines :
         LET s == Stmt(tpc)
             o == Exec(s, line)
             bound == IF s.op = "RelayModule" THEN Upper(targ) ELSE port
         IN  /\ last' = Call(s.op, IF s.op = "identify" THEN "" ELSE bound, 0,
                             IF s.op = "identify" THEN line ELSE s.l, s.iterable, o)
             /\ Effects(o)
             /\ port' = bound
             /\ tpc' = IF o.exc = "" THEN tpc + 1 ELSE tpc
    /\ UNCHANGED targ

InitTest ==
    /\ first = IOModule_init.trace[1].b
    /\ port = ""
    /\ last = Call("IOModule", "", 1, <<>>, TRUE, IOModule_init)
    /\ mode = ModeAfter(0, IOModule_init.trace, 1)
    /\ board = TRUE
    /\ dev \in [Ports -> InitBytes]
    /\ targ \in TestPorts
    /\ tpc = 1

SpecTest == InitTest /\ [][TestStep]_vars

(***************************************************************************)
(* Properties.  Vocabulary first, written without the driver's operators.  *)
(***************************************************************************)
IsWrite(e) == e.k = "w"
IsRead(e) == e.k = "r"
Writes(trace) == SelectSeq(trace, IsWrite)
Reads(trace) == SelectSeq(trace, IsRead)

RECURSIVE Wire(_, _)
Wire(trace, i) ==
    IF i > Len(trace) THEN <<>>
    ELSE IF IsWrite(trace[i]) THEN trace[i].b \o Wire(trace, i + 1)
    ELSE Wire(trace, i + 1)

Letter(p) ==
    CASE p \in {"A", "a"} -> "A" [] p \in {"B", "b"} -> "B"
      [] p \in {"C", "c"} -> "C" [] OTHER -> "none"
ValidPort(p) == Letter(p) \in Ports
UpperCode == [q \in Ports |-> CASE q = "A" -> 65 [] q = "B" -> 66 [] q = "C" -> 67]
LowerCode == [q \in Ports |-> CASE q = "A" -> 97 [] q = "B" -> 98 [] q = "C" -> 99]
BaseOf == [q \in Ports |-> CASE q = "A" -> 0 [] q = "B" -> 8 [] q = "C" -> 16]

AllPinsValid(l) == \A i \in 1..Len(l) : l[i] \in 1..8
Distinct(l) == \A i, j \in 1..Len(l) : l[i] = l[j] => i = j
\* bit p-1 of arg is `on` exactly for the pins p of S, and the other bit elsewhere
MaskFor(arg, S, on) ==
    /\ arg \in 0..255
    /\ \A pin \in 1..8 : (Bit(arg, pin - 1) = on) <=> (pin \in S)

ValidationErrors == {"InvalidMode", "InvalidPort", "InvalidPin", "InvalidData"}
ScalarPinOps == {"set_pin_high", "set_pin_low"}
FeatureOps == {"port_pull_up", "set_threshold_high", "schmitt_trigger"}
FeatureRawOps == {"port_pull_up_raw", "set_threshold_raw", "schmitt_trigger_raw"}
ListPinOps ==
    {"set_pin_direction", "set_state", "activate", "deactivate"} \cup FeatureOps
SelectorCode(op) ==
    CASE op = "port_pull_up" -> 35 [] op = "set_threshold_high" -> 64
      [] op = "schmitt_trigger" -> 36

\* C1: a call that ends in a validation error has written no byte to the
\* transport.
C1_NoWriteOnValidationError ==
    last.exc \in ValidationErrors => Writes(last.trace) = <<>>

\* C2: with a valid port, a pin-taking call given a pin (or a list with an
\* element) outside 1..8 fails with InvalidPin and writes nothing.
C2_BadPinRejected ==
    LET bad == \/ last.op \in ScalarPinOps /\ last.n \notin 1..8
               \/ last.op \in ListPinOps /\ ~AllPinsValid(last.list)
    IN  (bad /\ ValidPort(last.port)) =>
            (last.exc = "InvalidPin" /\ Writes(last.trace) = <<>>)

\* A read, if any, is the last event of the call and the only read.
ReadLast(trace) ==
    /\ Len(Reads(trace)) <= 1
    /\ \A i \in 1..Len(trace) : IsRead(trace[i]) => i = Len(trace)

\* C3 as stated: every call performs at most one write, followed by at most
\* one read.
C3_AtMostOneWrite ==
    Len(Writes(last.trace)) <= 1 /\ ReadLast(last.trace)

\* C3 amended: every call performs at most one read, after all its writes;
\* the pull-up, threshold and Schmitt calls (raw and convenience) perform at
\* most two writes, activate and deactivate at most one write per listed
\* relay, and every other call at most one write.
C3_WritesPerCall ==
    /\ ReadLast(last.trace)
    /\ Len(Writes(last.trace)) <=
         IF last.op \in FeatureOps \cup FeatureRawOps THEN 2
         ELSE IF last.op \in {"activate", "deactivate"} THEN Len(last.list)
         ELSE 1

C3_Witness ==
    /\ last.op = "set_threshold_high" /\ Len(Writes(last.trace)) = 2
    /\ last.exc = ""

\* The frame of set_pin_direction for the last call's port and list.
DirectionFrameSent ==
    /\ last.exc = ""
    /\ Len(last.trace) = 1 /\ IsWrite(last.trace[1])
    /\ LET f == last.trace[1].b
       IN  /\ Len(f) = 3 /\ f[1] = 33 /\ f[2] = UpperCode[Letter(last.port)]
           /\ MaskFor(f[3], Range(last.list), 1)

\* C4 as stated: for a valid port in either case and any list of pins in
\* 1..8, repeated pins included, set_pin_direction sends ['!', PORT, arg]
\* with bit p-1 of arg set exactly for the listed pins p.
C4_DirectionAnyList ==
    (last.op = "set_pin_direction" /\ ValidPort(last.port)
        /\ AllPinsValid(last.list)) => DirectionFrameSent

\* C4 amended: the same for every list of distinct pins in 1..8.
C4_DirectionDistinct ==
    (last.op = "set_pin_direction" /\ ValidPort(last.port)
        /\ AllPinsValid(last.list) /\ Distinct(last.list)) => DirectionFrameSent

C4_Witness ==
    /\ last.op = "set_pin_direction" /\ last.port = "b"
    /\ last.list = <<8, 1>> /\ Wire(last.trace, 1) = <<33, 66, 129>>

\* C5: for a valid port in either case and a list of distinct pins in 1..8,
\* port_pull_up, set_threshold_high and schmitt_trigger put on the wire
\* exactly [selector, PORT, arg], selector '#', '@', '$', with bit p-1 of arg
\* clear exactly for the listed pins p; arg is the complement of the arg
\* set_pin_direction sends for the same list.
C5_InvertedMask ==
    (last.op \in FeatureOps /\ ValidPort(last.port)
        /\ AllPinsValid(last.list) /\ Distinct(last.list)) =>
        LET wire == Wire(last.trace, 1)
            dir == Wire(set_pin_direction(last.port, last.list).trace, 1)
        IN  /\ last.exc = ""
            /\ Reads(last.trace) = <<>>
            /\ Len(wire) = 3
            /\ wire[1] = SelectorCode(last.op)
            /\ wire[2] = UpperCode[Letter(last.port)]
            /\ MaskFor(wire[3], Range(last.list), 0)
            /\ Len(dir) = 3 /\ wire[3] + dir[3] = 255
            /\ \A i \in 0..7 : Bit(wire[3], i) # Bit(dir[3], i)

C5_Witness ==
    /\ last.op = "schmitt_trigger" /\ last.port = "b" /\ last.list = <<1, 8>>
    /\ Wire(last.trace, 1) = <<36, 66, 126>>

\* What set_state(S) must have done: one Write Port frame [P, m] with bit r-1
\* of m set exactly for the relays r of S, and the board's relays equal to it.
StateFrameSent(S) ==
    /\ last.exc = ""
    /\ Len(last.trace) = 1 /\ IsWrite(last.trace[1])
    /\ LET f == last.trace[1].b
       IN  /\ Len(f) = 2 /\ f[1] = UpperCode[port]
           /\ MaskFor(f[2], S, 1)
    /\ MaskFor(dev[port], S, 1)

\* C6 as stated: for every collection S of relays in 1..8, set_state(S) sends
\* exactly the one frame [P, m] with bit r-1 of m set exactly for r in S, and
\* relay r is on afterwards iff r is in S; reset() sends exactly [P, 0].
C6_SetStateAnyList ==
    /\ (last.op = "set_state" /\ AllPinsValid(last.list)) =>
           StateFrameSent(Range(last.list))
    /\ last.op = "reset" => StateFrameSent({})

\* C6 amended: the same for every collection of distinct relays in 1..8.
C6_SetStateDistinct ==
    /\ (last.op = "set_state" /\ AllPinsValid(last.list) /\ Distinct(last.list)) =>
           StateFrameSent(Range(last.list))
    /\ last.op = "reset" => StateFrameSent({})

C6_Witness ==
    /\ last.op = "set_state" /\ last.list = <<8, 1>> /\ port = "C"
    /\ Wire(last.trace, 1) = <<67, 129>> /\ dev["C"] = 129 /\ dev["A"] = 255

\* C7: activate / deactivate of relays in 1..8 sends, in list order, one
\* frame ['H' / 'L', base(P) + r - 1] per listed relay and no Write Port
\* frame; on the board the relays the call does not name keep their state,
\* and no call of the RelayModule changes a pin of another port.
C7_Step ==
    LET c == last'
        sel == IF c.op = "activate" THEN 72 ELSE 76
    IN  /\ (c.op \in {"activate", "deactivate"} /\ AllPinsValid(c.list)) =>
              /\ c.exc = ""
              /\ c.trace = [i \in 1..Len(c.list) |->
                               W(<<sel, BaseOf[port] + c.list[i] - 1>>)]
              /\ \A i \in 1..Len(c.trace) : ~IsWritePort(c.trace[i].b)
        /\ c.op \in {"activate", "deactivate"} =>
              \A r \in (1..8) \ Range(c.list) :
                  Bit(dev'[port], r - 1) = Bit(dev[port], r - 1)
        /\ \A q \in Ports \ {port} : dev'[q] = dev[q]

C7_SingleBitWrites == [][C7_Step]_vars

C7_Witness ==
    /\ last.op = "deactivate" /\ last.list = <<1>> /\ port = "C"
    /\ Wire(last.trace, 1) = <<76, 16>>
    /\ dev["C"] = 128 /\ dev["A"] = 255 /\ dev["B"] = 255

\* C8: read_port on a valid port in either case writes the lowercase port
\* letter, then reads once, and returns the byte read as an unsigned integer
\* 0..255; no call other than read_port and identify reads.
C8_ReadPort ==
    /\ (last.op = "read_port" /\ ValidPort(last.port)) =>
           /\ last.trace = <<W(<<LowerCode[Letter(last.port)]>>), R(last.list)>>
           /\ Len(last.list) = 1 =>
                  /\ last.exc = ""
                  /\ last.ret = <<last.list[1]>>
                  /\ last.ret[1] \in 0..255
    /\ last.op \notin {"read_port", "identify"} => Reads(last.trace) = <<>>

C8_Witness ==
    /\ last.op = "read_port" /\ last.port = "A"
    /\ last.trace = <<W(<<97>>), R(<<5>>)>> /\ last.ret = <<5>>

\* C9 as stated: the device is in mode 1 in every reachable state.
C9_AlwaysMode1 == mode = 1

\* C9 amended: the first frame on the transport is the single byte 1, the
\* session starts in mode 1, and afterwards the mode changes only by a
\* set_mode call that returns, to the mode it was given.
C9_ModeOnlyBySetMode ==
    /\ first = <<1>> /\ mode = 1
    /\ [][/\ first' = first
          /\ mode' # mode =>
                (last'.op = "set_mode" /\ last'.exc = "" /\ last'.n = mode')]_vars

C9_Witness ==
    /\ first = <<1>> /\ mode = 2
    /\ last.op = "set_mode" /\ last.n = 2 /\ last.trace = <<W(<<2>>)>>

\* C10: test_relays run for a valid port raises in no statement, each
\* activate(i) / deactivate(i) sends the H / L frame of relay i, and the run
\* ends after its last statement, the last frame being Write Port with data 0.
C10_TestRunsClean ==
    (tpc > 0 /\ ValidPort(targ)) =>
        /\ last.exc = ""
        /\ last.op = "activate" =>
               Wire(last.trace, 1) = <<72, BaseOf[port] + last.list[1] - 1>>
        /\ last.op = "deactivate" =>
               Wire(last.trace, 1) = <<76, BaseOf[port] + last.list[1] - 1>>
        /\ tpc = TestLen + 1 => Wire(last.trace, 1) = <<UpperCode[port], 0>>

====
